---------------------------- MODULE Spec2Model ----------------------------
(***************************************************************************)
(* A model of the sentiment-neuron repository:                             *)
(*   - GeneticAlgorithm (src/sentneuron/utils/ga.py): evolve and its       *)
(*     evaluate / select / cross / mutate steps;                           *)
(*   - SentimentNeuron (src/sentneuron/sentneuron.py): fit_sequence with   *)
(*     checkpoints and interruption, generate_sequence, and                *)
(*     get_top_k_neuron_weights.                                           *)
(*                                                                         *)
(* Conventions.  Python indices start at 0, TLA+ sequences at 1: slot i of *)
(* the code is slot i+1 here, so the elite slots (code: i < elitism) are   *)
(* 1..elitism.  A gene is a real number; it is held as the integer         *)
(* gene * Scale, where Scale = 2^MaxGen, so that every average taken by    *)
(* cross within MaxGen generations is exact.  A fitness is the mean of     *)
(* squared errors of `experiments` predictions; it is held as its integer  *)
(* numerator (a number in 0..MaxScore).                                    *)
(***************************************************************************)
EXTENDS Integers, Sequences, FiniteSets, TLC

\* ------------------------------------------------------------------ bounds
PopSize == 3
IndSize == 1
MaxGen == 2
MaxScore == 2
MaxMut == 1
MaxEpochs == 3
MaxShards == 2
MaxWindows == 2
MaxTestBatches == 1
MaxSeed == 2
MaxLength == 2
VocabSize == 2
MaxDims == 8

\* ------------------------------------------------------- program constants
DomainLo == -10
DomainHi == 10
EvalEvery == 500

VARIABLES
    \* GeneticAlgorithm
    fits,          \* self.fits: the population
    nextPop,       \* evolve's local nextPop
    alias,         \* for each slot of nextPop, the row of self.fits it is a view of (0: none)
    fitness,       \* evolve's local fitness (as evaluate returned it)
    gaPc,          \* the position of evolve
    gen,           \* evolve's loop variable i: generations completed
    epochs,        \* evolve's argument
    elitism,       \* self.elitism
    best,          \* what evolve returned
    lastMut,       \* the genes the last mutate call redrew: <<slot, gene, value>>
    deterministic, \* whether calcFitness is a function of the individual
    oracle,        \* deterministic case: the scores calcFitness has given so far
    neuron         \* self.neuron, by what its generate_sequence returns

gaVars == <<fits, nextPop, alias, fitness, gaPc, gen, epochs, elitism, best,
            lastMut, deterministic, oracle, neuron>>

VARIABLES
    \* SentimentNeuron.fit_sequence
    fitPc,          \* the position of fit_sequence / __fit_sequence / save
    fitArgs,        \* epochs, and the dataset: shards, training windows per shard,
                    \* and the windows (n_batches, line 147) of the held-out shard
    checkpoint,     \* the checkpoint argument
    epoch,          \* loop variables of __fit_sequence
    shard,
    batch_ix,
    batch_in,       \* locals of __fit_sequence
    shard_in,
    epoch_lr,       \* in units of lr / epochs
    optimizer_lr,   \* the rate in the optimizer's param_groups, same units
    num_iters,
    loss_avg,       \* the number of windows averaged into the smoothed loss
    training_state, \* self.training_state
    optim_state,    \* save's local optim_state
    mode,           \* self.training: "train" or "eval"
    files,          \* the artifact triple on disk
    saveFor,        \* which call of save is running: "epoch" or "final"
    interrupted,    \* a KeyboardInterrupt was caught by fit_sequence
    firstWindow     \* no training window has run yet

fitVars == <<fitPc, fitArgs, checkpoint, epoch, shard, batch_ix, batch_in, shard_in,
             epoch_lr, optimizer_lr, num_iters, loss_avg, training_state, optim_state, mode, files,
             saveFor, interrupted, firstWindow>>

VARIABLES
    \* SentimentNeuron.generate_sequence
    genPc,        \* the position of generate_sequence
    genArgs,      \* sample_init (encoded), sample_len, temperature, override, append_init
    seq,          \* the local seq
    x,            \* the local x: {} while unbound, else {symbol}
    hidden_cell,  \* the recurrent state: the forward steps that produced it and
                  \* the overrides added to its hidden tensor on the way
    cell,         \* the local cell: {} while unbound, else {the state whose cell
                  \* tensor it is}
    t,            \* the loop variable
    sampled,      \* the number of symbols drawn by torch.multinomial
    result        \* {} until generate_sequence returns, then {its return value}

genVars == <<genPc, genArgs, seq, x, hidden_cell, cell, t, sampled, result>>

VARIABLES
    \* SentimentNeuron.get_top_k_neuron_weights
    tkPc,         \* "call" before the call, "done" after it
    coef,         \* self.sent_classfier.coef_ of a two-class classifier: one row
    k,            \* the argument k
    k_indices     \* the indices returned (numbered from 0, as in the code)

tkVars == <<tkPc, coef, k, k_indices>>

vars == <<gaVars, fitVars, genVars, tkVars>>

notGA == <<fitVars, genVars, tkVars>>
notFit == <<gaVars, genVars, tkVars>>
notGen == <<gaVars, fitVars, tkVars>>
notTk == <<gaVars, fitVars, genVars>>

\* ------------------------------------------------------- GeneticAlgorithm

RECURSIVE Pow2(_)
Pow2(n) == IF n = 0 THEN 1 ELSE 2 * Pow2(n - 1)

Scale == Pow2(MaxGen)

\* The values a draw from uniform(domain[0], domain[1]) is taken from.
GeneVals == {DomainLo * Scale, DomainHi * Scale}

Slots == 1..PopSize
Genes == 1..IndSize

\* Python's None: what roullete_wheel returns when its loop falls through.
None == <<>>

\* The population __init__ draws (line 16): uniform draws, here distinct
\* values spread over the domain.
InitGene(i, g) ==
    IF PopSize * IndSize = 1 THEN DomainLo * Scale
    ELSE (DomainLo + (((i - 1) * IndSize + (g - 1)) * (DomainHi - DomainLo))
                        \div (PopSize * IndSize - 1)) * Scale

InitPop == [i \in Slots |-> [g \in Genes |-> InitGene(i, g)]]

RECURSIVE SumTo(_, _)
SumTo(f, n) == IF n = 0 THEN 0 ELSE f[n] + SumTo(f, n - 1)

\* numpy's argsort: the permutation that sorts f ascending.  For arrays this
\* short numpy's default sort is an insertion sort, which keeps equal
\* elements in index order.
Rank(f, i) ==
    1 + Cardinality({j \in DOMAIN f : f[j] < f[i] \/ (f[j] = f[i] /\ j < i)})

\* A sort in descending order, in place of argsort.
argsort_descending(f) ==
    [r \in DOMAIN f |->
        CHOOSE i \in DOMAIN f :
            r = 1 + Cardinality({j \in DOMAIN f :
                                    f[j] > f[i] \/ (f[j] = f[i] /\ j < i)})]

argsort(f) == [r \in DOMAIN f |-> CHOOSE i \in DOMAIN f : Rank(f, i) = r]

\* a[ix]: numpy's indexing of an array by an index array.
Take(a, ix) == [r \in DOMAIN ix |-> a[ix[r]]]

\* roullete_wheel: the slot of the first individual whose running total of
\* fitness exceeds pick, 0 when the loop ends without one (None is returned).
roullete_wheel(sorted, pick) ==
    LET hit == {i \in Slots : SumTo(sorted, i) > pick}
    IN  IF hit = {} THEN 0 ELSE CHOOSE i \in hit : \A j \in hit : i <= j

\* The values np.random.uniform(0, total) can take, up to what the wheel's
\* comparison with integer running totals can tell apart: uniform(0, 0) is 0.
Picks(total) == IF total = 0 THEN {0} ELSE 0..(total - 1)

Min(S) == CHOOSE v \in S : \A u \in S : v <= u

Elite == 1..Min({elitism, PopSize})
NonElite == Slots \ Elite

\* calcFitness: a score for every individual; when the fitness function is
\* deterministic, equal individuals and individuals scored before get the
\* score they got.
Scored(f) ==
    deterministic =>
        /\ \A i, j \in Slots : fits[i] = fits[j] => f[i] = f[j]
        /\ \A i \in Slots : \A o \in oracle : o[1] = fits[i] => o[2] = f[i]

\* The neurons a search is built on (line 11), by what generate_sequence
\* gives calcFitness (line 38): the repository's SentimentNeuron returns the
\* pair of line 338 of sentneuron.py (decoded text, cell state); the others
\* return text, with note symbols ("n..."), with no note symbol at all, or
\* with an empty symbol (two spaces in a row, a trailing space).
Neurons == {"SentimentNeuron", "notes", "silence", "empty_symbol"}

GAStart ==
    /\ fits = InitPop
    /\ nextPop = <<>>
    /\ alias = [i \in Slots |-> 0]
    /\ fitness = <<>>
    /\ epochs \in 1..MaxGen
    /\ gaPc = "evaluate"
    /\ gen = 0
    /\ elitism \in 0..PopSize
    /\ best = None
    /\ lastMut = {}
    /\ deterministic \in BOOLEAN
    /\ oracle = {}
    /\ neuron \in Neurons

\* evaluate (called at line 93): calcFitness of every individual, with a
\* neuron whose text has note symbols, so that the experiments are valid.
Evaluate ==
    /\ gaPc = "evaluate"
    /\ \A i \in Slots : fits[i] # None
    /\ neuron = "notes"
    /\ \E f \in [Slots -> 0..MaxScore] :
          /\ Scored(f)
          /\ fitness' = f
          /\ oracle' = IF deterministic
                       THEN oracle \cup {<<fits[i], f[i]>> : i \in Slots}
                       ELSE oracle
    /\ gaPc' = "select"
    /\ UNCHANGED <<fits, nextPop, alias, gen, epochs, elitism, best, lastMut, deterministic, neuron>>
    /\ UNCHANGED notGA

\* evaluate on a population with a missing individual: calcFitness indexes
\* None (line 33) and raises TypeError.
EvaluateNone ==
    /\ gaPc = "evaluate"
    /\ \E i \in Slots : fits[i] = None
    /\ gaPc' = "crashed"
    /\ UNCHANGED <<fits, nextPop, alias, fitness, gen, epochs, elitism, best, lastMut,
                   deterministic, oracle, neuron>>
    /\ UNCHANGED notGA

\* evaluate when isSilence (lines 19-25) cannot read what generate_sequence
\* returned: a pair has no split (line 21, AttributeError), an empty symbol
\* has no first character (line 22, IndexError).
EvaluateRaises ==
    /\ gaPc = "evaluate"
    /\ \A i \in Slots : fits[i] # None
    /\ neuron \in {"SentimentNeuron", "empty_symbol"}
    /\ gaPc' = "crashed"
    /\ UNCHANGED <<fits, nextPop, alias, fitness, gen, epochs, elitism, best, lastMut,
                   deterministic, oracle, neuron>>
    /\ UNCHANGED notGA

\* evaluate with a neuron that generates silence only: no experiment is
\* valid and the loop of line 36 never ends.
EvaluateLoops ==
    /\ gaPc = "evaluate"
    /\ \A i \in Slots : fits[i] # None
    /\ neuron = "silence"
    /\ gaPc' = "looping"
    /\ UNCHANGED <<fits, nextPop, alias, fitness, gen, epochs, elitism, best, lastMut,
                   deterministic, oracle, neuron>>
    /\ UNCHANGED notGA

\* The list select builds (lines 69-77): src[i] is the row of the sorted
\* population put in slot i, 0 for None; pick[i] is the wheel's draw for a
\* slot past the elite.
SelectSources(sorted, pick) ==
    [i \in Slots |-> IF i \in Elite THEN i ELSE roullete_wheel(sorted, pick[i])]

\* select (lines 68-79) with every slot filled: np.array copies the rows.
Select ==
    /\ gaPc = "select"
    /\ LET ix == argsort(fitness)
           sortedFits == Take(fits, ix)
           sorted == Take(fitness, ix)
       IN  \E pick \in [NonElite -> Picks(SumTo(sorted, PopSize))] :
              LET src == SelectSources(sorted, pick)
              IN  /\ \A i \in Slots : src[i] # 0
                  /\ fits' = sortedFits
                  /\ nextPop' = [i \in Slots |-> sortedFits[src[i]]]
                  /\ alias' = [i \in Slots |-> 0]
    /\ gaPc' = "cross"
    /\ UNCHANGED <<fitness, gen, epochs, elitism, best, lastMut, deterministic, oracle, neuron>>
    /\ UNCHANGED notGA

\* select when the wheel returned None for a slot, on a numpy that builds an
\* object array from the ragged list: its elements are the row views
\* themselves (not copies) and None.
SelectNoneObject ==
    /\ gaPc = "select"
    /\ LET ix == argsort(fitness)
           sortedFits == Take(fits, ix)
           sorted == Take(fitness, ix)
       IN  \E pick \in [NonElite -> Picks(SumTo(sorted, PopSize))] :
              LET src == SelectSources(sorted, pick)
              IN  /\ \E i \in Slots : src[i] = 0
                  /\ fits' = sortedFits
                  /\ nextPop' = [i \in Slots |->
                                    IF src[i] = 0 THEN None ELSE sortedFits[src[i]]]
                  /\ alias' = src
    /\ gaPc' = "cross"
    /\ UNCHANGED <<fitness, gen, epochs, elitism, best, lastMut, deterministic, oracle, neuron>>
    /\ UNCHANGED notGA

\* The same on a numpy that refuses a ragged list (1.24 and later): when the
\* list holds both rows and None, np.array (line 79) raises ValueError and
\* select does not return.  A list of None alone is not ragged: every numpy
\* builds the object array of SelectNoneObject from it.
SelectNoneRaise ==
    /\ gaPc = "select"
    /\ LET ix == argsort(fitness)
           sortedFits == Take(fits, ix)
           sorted == Take(fitness, ix)
       IN  \E pick \in [NonElite -> Picks(SumTo(sorted, PopSize))] :
              LET src == SelectSources(sorted, pick)
              IN  /\ \E i \in Slots : src[i] = 0
                  /\ \E i \in Slots : src[i] # 0
                  /\ fits' = sortedFits
    /\ gaPc' = "crashed"
    /\ UNCHANGED <<nextPop, alias, fitness, gen, epochs, elitism, best, lastMut,
                   deterministic, oracle, neuron>>
    /\ UNCHANGED notGA

\* (a + b) / 2. of two individuals (line 60).
Average(a, b) == [g \in Genes |-> (a[g] + b[g]) \div 2]

\* A crossover that starts at the first slot, elite or not.
CrossSlotsFromFirst == {i \in Slots : i < PopSize}

\* The slots cross visits: range(self.elitism, self.popSize - 1).
CrossSlots == {i \in Slots : i > elitism /\ i < PopSize}

\* cross (lines 57-60): X is the set of visited slots whose draw was below
\* crossRate.  Slot i+1 is still as select left it when slot i is averaged.
Cross ==
    /\ gaPc = "cross"
    /\ \E X \in SUBSET CrossSlots :
          /\ \A i \in X : nextPop[i] # None /\ nextPop[i + 1] # None
          /\ nextPop' = [i \in Slots |->
                            IF i \in X THEN Average(nextPop[i], nextPop[i + 1])
                            ELSE nextPop[i]]
          /\ alias' = [i \in Slots |-> IF i \in X THEN 0 ELSE alias[i]]
    /\ gaPc' = "mutate"
    /\ UNCHANGED <<fits, fitness, gen, epochs, elitism, best, lastMut, deterministic, oracle, neuron>>
    /\ UNCHANGED notGA

\* cross adding None to an array (line 60): TypeError.
CrossNone ==
    /\ gaPc = "cross"
    /\ \E i \in CrossSlots : nextPop[i] = None \/ nextPop[i + 1] = None
    /\ gaPc' = "crashed"
    /\ UNCHANGED <<fits, nextPop, alias, fitness, gen, epochs, elitism, best, lastMut,
                   deterministic, oracle, neuron>>
    /\ UNCHANGED notGA

\* The slots mutate visits: range(self.elitism, self.popSize).
MutateSlots == {i \in Slots : i > elitism}

\* The population array after mutate has redrawn the genes in M.
Redrawn(pop, M) ==
    [i \in Slots |-> [g \in Genes |->
        IF \E m \in M : m[1] = i /\ m[2] = g
        THEN (CHOOSE m \in M : m[1] = i /\ m[2] = g)[3]
        ELSE pop[i][g]]]

\* mutate (lines 62-66): M holds the genes whose draw was below mutRate, each
\* with its fresh value.  The assignment is to self.fits[i][gene]: the
\* argument nextPop is not written, and changes only where one of its
\* elements is a view of the row written.
Mutate ==
    /\ gaPc = "mutate"
    /\ \E M \in SUBSET (MutateSlots \X Genes \X GeneVals) :
          /\ Cardinality(M) <= MaxMut
          /\ \A m, n \in M : (m[1] = n[1] /\ m[2] = n[2]) => m = n
          /\ fits' = Redrawn(fits, M)
          /\ nextPop' = [j \in Slots |->
                            IF alias[j] # 0 THEN Redrawn(fits, M)[alias[j]]
                            ELSE nextPop[j]]
          /\ lastMut' = M
    /\ gaPc' = "assign"
    /\ UNCHANGED <<alias, fitness, gen, epochs, elitism, best, deterministic, oracle, neuron>>
    /\ UNCHANGED notGA

\* self.fits = nextPop (line 100), and the loop's next iteration or its end.
Assign ==
    /\ gaPc = "assign"
    /\ fits' = nextPop
    /\ gen' = gen + 1
    /\ gaPc' = IF gen + 1 < epochs THEN "evaluate" ELSE "best"
    /\ lastMut' = {}
    /\ UNCHANGED <<nextPop, alias, fitness, epochs, elitism, best, deterministic, oracle, neuron>>
    /\ UNCHANGED notGA

\* best = self.fits[fitness.argsort()][0] (lines 102-103): fitness is the
\* array evaluate returned in the last generation, in the order the
\* population had before select sorted it.
ReturnBest ==
    /\ gaPc = "best"
    /\ best' = Take(fits, argsort(fitness))[1]
    /\ gaPc' = "done"
    /\ UNCHANGED <<fits, nextPop, alias, fitness, gen, epochs, elitism, lastMut,
                   deterministic, oracle, neuron>>
    /\ UNCHANGED notGA

GANext ==
    \/ Evaluate
    \/ EvaluateNone
    \/ EvaluateRaises
    \/ EvaluateLoops
    \/ Select
    \/ SelectNoneObject
    \/ SelectNoneRaise
    \/ Cross
    \/ CrossNone
    \/ Mutate
    \/ Assign
    \/ ReturnBest

GAIdle ==
    /\ fits = <<>>
    /\ nextPop = <<>>
    /\ alias = <<>>
    /\ fitness = <<>>
    /\ epochs = 0
    /\ gaPc = "idle"
    /\ gen = 0
    /\ elitism = 0
    /\ best = None
    /\ lastMut = {}
    /\ deterministic = FALSE
    /\ oracle = {}
    /\ neuron = "notes"

\* ------------------------------------------- SentimentNeuron.fit_sequence
\* A learning rate is held in units of lr / epochs: lr itself is fitArgs.epochs.

\* self.training_state as __init__ leaves it (lines 18-24).
InitialTrainingState ==
    [epoch |-> 0, shard |-> 0, batch |-> 0, loss |-> 0, optim |-> "{}"]

NoCheckpoint ==
    [present |-> FALSE, epoch |-> 0, shard |-> 0, batch |-> 0, loss |-> 0,
     optim |-> "{}", optim_lr |-> 0]

\* The optimizer states a checkpoint can hold: the {} a save writes before
\* the first optimizer step (training_state["optim"] as line 23 set it), or
\* a state_dict, with the rate in its param_groups.
OptimStates(a) ==
    {[optim |-> "{}", optim_lr |-> 0]}
        \cup {[optim |-> "state_dict", optim_lr |-> r] : r \in 0..a.epochs}

\* The checkpoints of a run over this dataset: an epoch, a shard and a batch
\* of the training loop (each written to training_state on its own, lines
\* 197, 206, 226), a smoothed loss (line 257: any of the window counts a run
\* over the dataset can have reached), and the optimizer state of
\* checkpoint['optimizer_state_dict'].
Checkpoints(a) ==
    {[present |-> TRUE, epoch |-> e, shard |-> s, batch |-> b, loss |-> l,
      optim |-> o.optim, optim_lr |-> o.optim_lr] :
        e \in 0..(a.epochs - 1), s \in 0..(a.shards - 1), b \in 0..(a.windows - 1),
        l \in 0..(a.epochs * a.shards * a.windows), o \in OptimStates(a)}

\* The artifact triple before any save: each file is the set of its
\* contents, {} while it does not exist.  A file that was opened for writing
\* and not written yet is empty on disk: Truncated.
NoFiles == [model |-> {}, train |-> {}, meta |-> {}]

Truncated == {[partial |-> TRUE]}

\* The call of fit_sequence: its arguments, and the model as its caller left
\* it, in training mode (a new module) or in evaluation mode (after load,
\* line 369, or evaluate_sequence_fit, line 136).
FitStart ==
    /\ fitPc = "start"
    /\ fitArgs \in [epochs : 1..MaxEpochs, shards : 1..MaxShards, windows : 1..MaxWindows,
                    test_batches : 0..MaxTestBatches]
    /\ checkpoint \in {NoCheckpoint} \cup Checkpoints(fitArgs)
    /\ epoch = 0
    /\ shard = 0
    /\ batch_ix = 0
    /\ batch_in = 0
    /\ shard_in = 0
    /\ epoch_lr = 0
    /\ optimizer_lr = 0
    /\ num_iters = 0
    /\ loss_avg = 0
    /\ training_state = InitialTrainingState
    /\ optim_state = "None"
    /\ mode \in {"train", "eval"}
    /\ files = NoFiles
    /\ saveFor = "none"
    /\ interrupted = FALSE
    /\ firstWindow = TRUE

FitIdle ==
    /\ fitPc = "idle"
    /\ fitArgs = [epochs |-> 0, shards |-> 0, windows |-> 0, test_batches |-> 0]
    /\ checkpoint = NoCheckpoint
    /\ epoch = 0
    /\ shard = 0
    /\ batch_ix = 0
    /\ batch_in = 0
    /\ shard_in = 0
    /\ epoch_lr = 0
    /\ optimizer_lr = 0
    /\ num_iters = 0
    /\ loss_avg = 0
    /\ training_state = InitialTrainingState
    /\ optim_state = "None"
    /\ mode = "train"
    /\ files = NoFiles
    /\ saveFor = "none"
    /\ interrupted = FALSE
    /\ firstWindow = TRUE

\* load_fit_sequence_checkpoint (lines 373-389): one iteration is counted for
\* every shard of every epoch before the checkpoint's, and one for every
\* shard before the checkpoint's shard.
CheckpointIters(ck, nShards) == ck.epoch * nShards + ck.shard

\* lr * (max_iter - num_iters) / max_iter (lines 267 and 388), in units of
\* lr / max_iter.
DecayedLr(max_iter, iters) == max_iter - iters

\* __fit_sequence, lines 183-194: the loop's starting position and rate.
FitBegin ==
    /\ fitPc = "start"
    /\ IF ~checkpoint.present
       THEN /\ epoch' = 0
            /\ shard_in' = 0
            /\ batch_in' = 0
            /\ epoch_lr' = fitArgs.epochs
            /\ loss_avg' = 0
            /\ num_iters' = 1
       ELSE /\ epoch' = checkpoint.epoch
            /\ shard_in' = checkpoint.shard
            /\ batch_in' = checkpoint.batch
            /\ loss_avg' = checkpoint.loss
            /\ num_iters' = CheckpointIters(checkpoint, fitArgs.shards)
            /\ epoch_lr' = DecayedLr(fitArgs.epochs,
                                     CheckpointIters(checkpoint, fitArgs.shards))
    /\ fitPc' = "epoch"
    /\ UNCHANGED <<fitArgs, checkpoint, shard, batch_ix, optimizer_lr, training_state,
                   optim_state, mode, files, saveFor, interrupted, firstWindow>>
    /\ UNCHANGED notFit

\* for epoch in range(epoch_in, epochs), lines 196-197: the epoch is
\* written to training_state.
EpochBegin ==
    /\ fitPc = "epoch"
    /\ epoch < fitArgs.epochs
    /\ training_state' = [training_state EXCEPT !.epoch = epoch]
    /\ fitPc' = "optimizer"
    /\ UNCHANGED <<fitArgs, checkpoint, epoch, shard, batch_ix, batch_in, shard_in,
                   epoch_lr, optimizer_lr, num_iters, loss_avg, optim_state, mode,
                   files, saveFor, interrupted, firstWindow>>
    /\ UNCHANGED notFit

\* optim.Adam refuses a negative rate (line 200): ValueError, which
\* fit_sequence does not catch.  The rate load_fit_sequence_checkpoint
\* computes is negative when the checkpoint's epoch * shards + shard exceeds
\* epochs.
MakeOptimizerValueError ==
    /\ fitPc = "optimizer"
    /\ epoch_lr < 0
    /\ fitPc' = "raised"
    /\ UNCHANGED <<fitArgs, checkpoint, epoch, shard, batch_ix, batch_in, shard_in,
                   epoch_lr, optimizer_lr, num_iters, loss_avg, training_state,
                   optim_state, mode, files, saveFor, interrupted, firstWindow>>
    /\ UNCHANGED notFit

\* In a run resumed from a checkpoint whose optimizer state is {},
\* load_state_dict (line 202) finds no param_groups and raises KeyError,
\* which fit_sequence does not catch.
MakeOptimizerKeyError ==
    /\ fitPc = "optimizer"
    /\ epoch_lr >= 0
    /\ checkpoint.present /\ checkpoint.optim = "{}"
    /\ fitPc' = "raised"
    /\ UNCHANGED <<fitArgs, checkpoint, epoch, shard, batch_ix, batch_in, shard_in,
                   epoch_lr, optimizer_lr, num_iters, loss_avg, training_state,
                   optim_state, mode, files, saveFor, interrupted, firstWindow>>
    /\ UNCHANGED notFit

\* lines 199-203: the optimizer is created with epoch_lr, and in a resumed
\* run load_state_dict then replaces its param_groups, the rate included, by
\* the checkpoint's, in every epoch; the shard loop starts.
MakeOptimizer ==
    /\ fitPc = "optimizer"
    /\ epoch_lr >= 0
    /\ ~(checkpoint.present /\ checkpoint.optim = "{}")
    /\ optimizer_lr' = IF checkpoint.present THEN checkpoint.optim_lr ELSE epoch_lr
    /\ shard' = shard_in
    /\ fitPc' = "shard"
    /\ UNCHANGED <<fitArgs, checkpoint, epoch, batch_ix, batch_in, shard_in, epoch_lr,
                   num_iters, loss_avg, training_state, optim_state, mode, files,
                   saveFor, interrupted, firstWindow>>
    /\ UNCHANGED notFit

\* The epoch loop is over: __fit_sequence returns and fit_sequence saves the
\* final model (line 175).
EpochsDone ==
    /\ fitPc = "epoch"
    /\ epoch >= fitArgs.epochs
    /\ fitPc' = "save_model"
    /\ saveFor' = "final"
    /\ UNCHANGED <<fitArgs, checkpoint, epoch, shard, batch_ix, batch_in, shard_in,
                   epoch_lr, optimizer_lr, num_iters, loss_avg, training_state, optim_state, mode,
                   files, interrupted, firstWindow>>
    /\ UNCHANGED notFit

\* for shard in range(shard_in, len(seq_dataset.data)), lines 205-206: the
\* shard is written to training_state.
ShardBegin ==
    /\ fitPc = "shard"
    /\ shard < fitArgs.shards
    /\ training_state' = [training_state EXCEPT !.shard = shard]
    /\ fitPc' = "shard_train"
    /\ UNCHANGED <<fitArgs, checkpoint, epoch, shard, batch_ix, batch_in, shard_in,
                   epoch_lr, optimizer_lr, num_iters, loss_avg, optim_state, mode,
                   files, saveFor, interrupted, firstWindow>>
    /\ UNCHANGED notFit

\* lines 208-222: training mode is switched on at the head of every shard,
\* the shard is read, and the batch loop starts.
ShardTrain ==
    /\ fitPc = "shard_train"
    /\ mode' = "train"
    /\ batch_ix' = batch_in
    /\ fitPc' = "batch"
    /\ UNCHANGED <<fitArgs, checkpoint, epoch, shard, batch_in, shard_in, epoch_lr,
                   optimizer_lr, num_iters, loss_avg, training_state, optim_state,
                   files, saveFor, interrupted, firstWindow>>
    /\ UNCHANGED notFit

\* The shard loop is over, lines 266-273: the rate decays, the iteration is
\* counted, and the preliminary model is saved.
ShardsDone ==
    /\ fitPc = "shard"
    /\ shard >= fitArgs.shards
    /\ epoch_lr' = DecayedLr(fitArgs.epochs, num_iters)
    /\ num_iters' = num_iters + 1
    /\ shard_in' = 0
    /\ fitPc' = "save_model"
    /\ saveFor' = "epoch"
    /\ UNCHANGED <<fitArgs, checkpoint, epoch, shard, batch_ix, batch_in, loss_avg,
                   optimizer_lr, training_state, optim_state, mode, files, interrupted,
                   firstWindow>>
    /\ UNCHANGED notFit

\* for batch_ix in range(batch_in, n_batches - 1), lines 225-226.
BatchBegin ==
    /\ fitPc = "batch"
    /\ batch_ix < fitArgs.windows
    /\ training_state' = [training_state EXCEPT !.batch = batch_ix]
    /\ fitPc' = "window"
    /\ UNCHANGED <<fitArgs, checkpoint, epoch, shard, batch_ix, batch_in, shard_in,
                   epoch_lr, optimizer_lr, num_iters, loss_avg, optim_state, mode, files, saveFor,
                   interrupted, firstWindow>>
    /\ UNCHANGED notFit

\* The batch loop is over: batch_in = 0 (line 264) and the next shard.
BatchesDone ==
    /\ fitPc = "batch"
    /\ batch_ix >= fitArgs.windows
    /\ batch_in' = 0
    /\ shard' = shard + 1
    /\ fitPc' = "shard"
    /\ UNCHANGED <<fitArgs, checkpoint, epoch, batch_ix, shard_in, epoch_lr,
                   optimizer_lr, num_iters, loss_avg, training_state, optim_state, mode, files, saveFor,
                   interrupted, firstWindow>>
    /\ UNCHANGED notFit

\* One training window, lines 229-253: forward, backward, clip, optimizer
\* step; the optimizer's state goes to training_state.
TrainWindow ==
    /\ fitPc = "window"
    /\ training_state' = [training_state EXCEPT !.optim = "state_dict"]
    /\ firstWindow' = FALSE
    /\ fitPc' = "loss"
    /\ UNCHANGED <<fitArgs, checkpoint, epoch, shard, batch_ix, batch_in, shard_in,
                   epoch_lr, optimizer_lr, num_iters, loss_avg, optim_state, mode,
                   files, saveFor, interrupted>>
    /\ UNCHANGED notFit

\* The end of the window, lines 255-260: the smoothed loss goes to
\* training_state, and every 500th window is followed by a test.
WindowLoss ==
    /\ fitPc = "loss"
    /\ loss_avg' = loss_avg + 1
    /\ training_state' = [training_state EXCEPT !.loss = loss_avg + 1]
    /\ IF batch_ix % EvalEvery = 0
       THEN fitPc' = "test" /\ batch_ix' = batch_ix
       ELSE fitPc' = "batch" /\ batch_ix' = batch_ix + 1
    /\ UNCHANGED <<fitArgs, checkpoint, epoch, shard, batch_in, shard_in, epoch_lr,
                   optimizer_lr, num_iters, optim_state, mode, files, saveFor,
                   interrupted, firstWindow>>
    /\ UNCHANGED notFit

\* The periodic test, lines 260-262, begins: evaluate_sequence_fit switches
\* the model to evaluation mode (line 136) and nothing switches it back.
PeriodicTestBegin ==
    /\ fitPc = "test"
    /\ mode' = "eval"
    /\ fitPc' = "test_run"
    /\ UNCHANGED <<fitArgs, checkpoint, epoch, shard, batch_ix, batch_in, shard_in,
                   epoch_lr, optimizer_lr, num_iters, loss_avg, training_state,
                   optim_state, files, saveFor, interrupted, firstWindow>>
    /\ UNCHANGED notFit

\* evaluate_sequence_fit, lines 138-166, on a held-out shard of at least one
\* window returns the loss; __fit_sequence logs it (line 262) and goes on to
\* the next window.
PeriodicTest ==
    /\ fitPc = "test_run"
    /\ fitArgs.test_batches > 0
    /\ batch_ix' = batch_ix + 1
    /\ fitPc' = "batch"
    /\ UNCHANGED <<fitArgs, checkpoint, epoch, shard, batch_in, shard_in, epoch_lr,
                   optimizer_lr, num_iters, loss_avg, training_state, optim_state,
                   mode, files, saveFor, interrupted, firstWindow>>
    /\ UNCHANGED notFit

\* On a held-out shard shorter than one window n_batches is 0 (line 147)
\* and loss_avg / n_batches (line 166) raises ZeroDivisionError (an empty
\* shard raises already in __batchify_sequence, line 291); fit_sequence
\* catches neither.
PeriodicTestRaises ==
    /\ fitPc = "test_run"
    /\ fitArgs.test_batches = 0
    /\ fitPc' = "raised"
    /\ UNCHANGED <<fitArgs, checkpoint, epoch, shard, batch_ix, batch_in, shard_in,
                   epoch_lr, optimizer_lr, num_iters, loss_avg, training_state,
                   optim_state, mode, files, saveFor, interrupted, firstWindow>>
    /\ UNCHANGED notFit

\* save, lines 393-398: the dictionary for the model blob is built from
\* training_state["optim"], and torch.save opens the file.
SaveModelOpen ==
    /\ fitPc = "save_model"
    /\ "optim" \in DOMAIN training_state
    /\ files' = [files EXCEPT !.model = Truncated]
    /\ fitPc' = "save_model_write"
    /\ UNCHANGED <<fitArgs, checkpoint, epoch, shard, batch_ix, batch_in, shard_in,
                   epoch_lr, optimizer_lr, num_iters, loss_avg, training_state,
                   optim_state, mode, saveFor, interrupted, firstWindow>>
    /\ UNCHANGED notFit

\* The same when training_state has no "optim" key: line 397 raises KeyError,
\* which nothing catches.
SaveModelKeyError ==
    /\ fitPc = "save_model"
    /\ "optim" \notin DOMAIN training_state
    /\ fitPc' = "raised"
    /\ UNCHANGED <<fitArgs, checkpoint, epoch, shard, batch_ix, batch_in, shard_in,
                   epoch_lr, optimizer_lr, num_iters, loss_avg, training_state,
                   optim_state, mode, files, saveFor, interrupted, firstWindow>>
    /\ UNCHANGED notFit

\* torch.save (lines 395-398) writes the blob.
SaveModel ==
    /\ fitPc = "save_model_write"
    /\ files' = [files EXCEPT !.model = {[optim |-> training_state.optim]}]
    /\ fitPc' = "save_pop"
    /\ UNCHANGED <<fitArgs, checkpoint, epoch, shard, batch_ix, batch_in, shard_in,
                   epoch_lr, optimizer_lr, num_iters, loss_avg, training_state,
                   optim_state, mode, saveFor, interrupted, firstWindow>>
    /\ UNCHANGED notFit

\* save, line 401: optim_state = self.training_state.pop("optim", None).
SavePop ==
    /\ fitPc = "save_pop"
    /\ optim_state' = training_state.optim
    /\ training_state' = [key \in DOMAIN training_state \ {"optim"} |->
                              training_state[key]]
    /\ fitPc' = "save_train"
    /\ UNCHANGED <<fitArgs, checkpoint, epoch, shard, batch_ix, batch_in, shard_in,
                   epoch_lr, optimizer_lr, num_iters, loss_avg, mode, files, saveFor,
                   interrupted, firstWindow>>
    /\ UNCHANGED notFit

\* save, lines 403-404: the training-state file is opened for writing.
SaveTrainOpen ==
    /\ fitPc = "save_train"
    /\ files' = [files EXCEPT !.train = Truncated]
    /\ fitPc' = "save_train_dump"
    /\ UNCHANGED <<fitArgs, checkpoint, epoch, shard, batch_ix, batch_in, shard_in,
                   epoch_lr, optimizer_lr, num_iters, loss_avg, training_state,
                   optim_state, mode, saveFor, interrupted, firstWindow>>
    /\ UNCHANGED notFit

\* save, line 405: json.dump writes the training-state JSON.
SaveTrain ==
    /\ fitPc = "save_train_dump"
    /\ files' = [files EXCEPT !.train = {training_state}]
    /\ fitPc' = "save_meta"
    /\ UNCHANGED <<fitArgs, checkpoint, epoch, shard, batch_ix, batch_in, shard_in,
                   epoch_lr, optimizer_lr, num_iters, loss_avg, training_state,
                   optim_state, mode, saveFor, interrupted, firstWindow>>
    /\ UNCHANGED notFit

\* save, lines 408-409: the metadata file is opened for writing.
SaveMetaOpen ==
    /\ fitPc = "save_meta"
    /\ files' = [files EXCEPT !.meta = Truncated]
    /\ fitPc' = "save_meta_dump"
    /\ UNCHANGED <<fitArgs, checkpoint, epoch, shard, batch_ix, batch_in, shard_in,
                   epoch_lr, optimizer_lr, num_iters, loss_avg, training_state,
                   optim_state, mode, saveFor, interrupted, firstWindow>>
    /\ UNCHANGED notFit

\* save, lines 410-421: the metadata is collected and json.dump writes it.
SaveMeta ==
    /\ fitPc = "save_meta_dump"
    /\ files' = [files EXCEPT !.meta = {[written |-> TRUE]}]
    /\ fitPc' = "save_restore"
    /\ UNCHANGED <<fitArgs, checkpoint, epoch, shard, batch_ix, batch_in, shard_in,
                   epoch_lr, optimizer_lr, num_iters, loss_avg, training_state,
                   optim_state, mode, saveFor, interrupted, firstWindow>>
    /\ UNCHANGED notFit

\* save, line 424: the optimizer state is put back; then the caller goes on:
\* the next epoch (line 196) or the final test (line 178).
SaveRestore ==
    /\ fitPc = "save_restore"
    /\ training_state' =
          [key \in DOMAIN training_state \cup {"optim"} |->
              IF key = "optim" THEN optim_state ELSE training_state[key]]
    /\ IF saveFor = "epoch"
       THEN fitPc' = "epoch" /\ epoch' = epoch + 1
       ELSE fitPc' = "final_test" /\ epoch' = epoch
    /\ UNCHANGED <<fitArgs, checkpoint, shard, batch_ix, batch_in, shard_in, epoch_lr, optimizer_lr,
                   num_iters, loss_avg, optim_state, mode, files, saveFor, interrupted,
                   firstWindow>>
    /\ UNCHANGED notFit

\* fit_sequence, lines 178-179: the final test, whose loss is returned.
FinalTest ==
    /\ fitPc = "final_test"
    /\ fitArgs.test_batches > 0
    /\ mode' = "eval"
    /\ fitPc' = "returned"
    /\ UNCHANGED <<fitArgs, checkpoint, epoch, shard, batch_ix, batch_in, shard_in,
                   epoch_lr, optimizer_lr, num_iters, loss_avg, training_state,
                   optim_state, files, saveFor, interrupted, firstWindow>>
    /\ UNCHANGED notFit

\* The final test on a held-out shard shorter than one window: the model is
\* in evaluation mode (line 136) when line 166 raises ZeroDivisionError.
FinalTestRaises ==
    /\ fitPc = "final_test"
    /\ fitArgs.test_batches = 0
    /\ mode' = "eval"
    /\ fitPc' = "raised"
    /\ UNCHANGED <<fitArgs, checkpoint, epoch, shard, batch_ix, batch_in, shard_in,
                   epoch_lr, optimizer_lr, num_iters, loss_avg, training_state,
                   optim_state, files, saveFor, interrupted, firstWindow>>
    /\ UNCHANGED notFit

\* The positions inside the try block of fit_sequence (line 170).
InTry ==
    \/ fitPc \in {"start", "epoch", "optimizer", "shard", "shard_train", "batch",
                  "window", "loss", "test", "test_run"}
    \/ /\ saveFor = "epoch"
       /\ fitPc \in {"save_model", "save_model_write", "save_pop", "save_train",
                    "save_train_dump", "save_meta", "save_meta_dump", "save_restore"}

\* KeyboardInterrupt inside the try block, lines 171-175: it is caught, and
\* fit_sequence goes on to save the final model.
Interrupt ==
    /\ InTry
    /\ interrupted' = TRUE
    /\ fitPc' = "save_model"
    /\ saveFor' = "final"
    /\ UNCHANGED <<fitArgs, checkpoint, epoch, shard, batch_ix, batch_in, shard_in,
                   epoch_lr, optimizer_lr, num_iters, loss_avg, training_state, optim_state, mode,
                   files, firstWindow>>
    /\ UNCHANGED notFit

FitNext ==
    \/ FitBegin
    \/ EpochBegin
    \/ MakeOptimizerValueError
    \/ MakeOptimizerKeyError
    \/ MakeOptimizer
    \/ EpochsDone
    \/ ShardBegin
    \/ ShardTrain
    \/ ShardsDone
    \/ BatchBegin
    \/ BatchesDone
    \/ TrainWindow
    \/ WindowLoss
    \/ PeriodicTestBegin
    \/ PeriodicTest
    \/ PeriodicTestRaises
    \/ SaveModelOpen
    \/ SaveModelKeyError
    \/ SaveModel
    \/ SavePop
    \/ SaveTrainOpen
    \/ SaveTrain
    \/ SaveMetaOpen
    \/ SaveMeta
    \/ SaveRestore
    \/ FinalTest
    \/ FinalTestRaises
    \/ Interrupt

\* -------------------------------------- SentimentNeuron.generate_sequence

Vocab == 0..(VocabSize - 1)

\* The temperatures tried: a negative one, zero and a positive one.
Temperatures == {-1, 0, 1}

\* The override maps tried: none, and a bias on neuron 0.
Overrides == {{}, {0}}

Seeds == UNION {[1..n -> Vocab] : n \in 1..MaxSeed}

\* init_hidden (lines 66-69): the zero state.
init_hidden == [steps |-> 0, biased |-> 0]

\* forward (lines 71-98) returns new state tensors.
forward(h) == [h EXCEPT !.steps = h.steps + 1]

\* lines 317-321: the override is added to the hidden tensor in place.
Overridden(h, override) ==
    IF override = {} THEN h ELSE [h EXCEPT !.biased = h.biased + 1]

GenStart ==
    /\ genPc = "call"
    /\ genArgs \in [sample_init : Seeds, sample_len : 0..MaxLength,
                    temperature : Temperatures, override : Overrides,
                    append_init : BOOLEAN]
    /\ seq = <<>>
    /\ x = {}
    /\ hidden_cell = init_hidden
    /\ cell = {}
    /\ t = 0
    /\ sampled = 0
    /\ result = {}

GenIdle ==
    /\ genPc = "idle"
    /\ genArgs = [sample_init |-> <<>>, sample_len |-> 0, temperature |-> 1,
                  override |-> {}, append_init |-> TRUE]
    /\ seq = <<>>
    /\ x = {}
    /\ hidden_cell = init_hidden
    /\ cell = {}
    /\ t = 0
    /\ sampled = 0
    /\ result = {}

\* lines 301-307: the empty sequence, a new hidden state, the encoded seed.
GenBegin ==
    /\ genPc = "call"
    /\ seq' = <<>>
    /\ hidden_cell' = init_hidden
    /\ t' = 0
    /\ genPc' = "prime"
    /\ UNCHANGED <<genArgs, x, cell, sampled, result>>
    /\ UNCHANGED notGen

\* lines 309-313: one symbol of the seed is run through the model.
GenPrime ==
    /\ genPc = "prime"
    /\ t < Len(genArgs.sample_init)
    /\ hidden_cell' = forward(hidden_cell)
    /\ x' = {genArgs.sample_init[t + 1]}
    /\ seq' = IF genArgs.append_init
              THEN Append(seq, genArgs.sample_init[t + 1])
              ELSE seq
    /\ t' = t + 1
    /\ UNCHANGED <<genPc, genArgs, cell, sampled, result>>
    /\ UNCHANGED notGen

\* The seed loop is over; the sampling loop starts (line 315).
GenPrimed ==
    /\ genPc = "prime"
    /\ t >= Len(genArgs.sample_init)
    /\ t' = 0
    /\ genPc' = "sample"
    /\ UNCHANGED <<genArgs, seq, x, hidden_cell, cell, sampled, result>>
    /\ UNCHANGED notGen

\* The distribution softmax(y / temperature) can be sampled: dividing the
\* logits by zero gives infinities and NaN, softmax of these is NaN, and
\* torch.multinomial raises on it; any other temperature, negative ones
\* included, gives a distribution with every symbol possible.
CanSample(temperature) == temperature # 0

\* lines 315-333, one sampling step: cell is taken from the state before the
\* forward step and is not written by the override, which is added to the
\* hidden tensor only; the symbol drawn is appended.
GenSample ==
    /\ genPc = "sample"
    /\ t < genArgs.sample_len
    /\ x # {}
    /\ CanSample(genArgs.temperature)
    /\ cell' = {hidden_cell}
    /\ hidden_cell' = forward(Overridden(hidden_cell, genArgs.override))
    /\ \E sym \in Vocab :
          /\ x' = {sym}
          /\ seq' = Append(seq, sym)
    /\ sampled' = sampled + 1
    /\ t' = t + 1
    /\ UNCHANGED <<genPc, genArgs, result>>
    /\ UNCHANGED notGen

\* The same step when the distribution cannot be sampled: line 330 raises.
GenSampleRaises ==
    /\ genPc = "sample"
    /\ t < genArgs.sample_len
    /\ x # {}
    /\ ~CanSample(genArgs.temperature)
    /\ cell' = {hidden_cell}
    /\ hidden_cell' = forward(Overridden(hidden_cell, genArgs.override))
    /\ genPc' = "raised"
    /\ UNCHANGED <<genArgs, seq, x, t, sampled, result>>
    /\ UNCHANGED notGen

\* lines 335-338: cell is read; seq goes to the decoder and is returned with
\* the cell state.
GenReturn ==
    /\ genPc = "sample"
    /\ t >= genArgs.sample_len
    /\ cell # {}
    /\ result' = {[sequence |-> seq, trans_sequence |-> CHOOSE c \in cell : TRUE]}
    /\ genPc' = "returned"
    /\ UNCHANGED <<genArgs, seq, x, hidden_cell, cell, t, sampled>>
    /\ UNCHANGED notGen

\* The same when the sampling loop never ran: cell is unbound at line 336
\* and Python raises UnboundLocalError.
GenReturnUnbound ==
    /\ genPc = "sample"
    /\ t >= genArgs.sample_len
    /\ cell = {}
    /\ genPc' = "raised"
    /\ UNCHANGED <<genArgs, seq, x, hidden_cell, cell, t, sampled, result>>
    /\ UNCHANGED notGen

GenNext ==
    \/ GenBegin
    \/ GenPrime
    \/ GenPrimed
    \/ GenSample
    \/ GenSampleRaises
    \/ GenReturn
    \/ GenReturnUnbound

\* ------------------------------- SentimentNeuron.get_top_k_neuron_weights

\* The classifier weights tried for one dimension.
CoefVals == {-2, 0, 1}

Abs(v) == IF v < 0 THEN -v ELSE v

\* line 430: the L1 norm over the classes of every dimension's weights.
weight_penalties(c) == [i \in DOMAIN c |-> Abs(c[i])]

\* np.argmax (line 433): the first index of the largest value.
argmax(w) ==
    CHOOSE i \in DOMAIN w :
        /\ \A j \in DOMAIN w : w[j] <= w[i]
        /\ \A j \in DOMAIN w : w[j] = w[i] => i <= j

\* [::-1]
Reversed(a) == [i \in DOMAIN a |-> a[Len(a) + 1 - i]]

\* [-n:]
LastN(a, n) == [i \in 1..n |-> a[Len(a) - n + i]]

\* Indices as the code numbers them.
ZeroBased(a) == [i \in DOMAIN a |-> a[i] - 1]

\* line 433
ArgmaxPath(w) == ZeroBased(<<argmax(w)>>)

\* line 435
FullSortPath(w, kk) == ZeroBased(Reversed(LastN(argsort(w), kk)))

\* np.argpartition(w, -k)[-k:] (line 437): k indices of largest values, the
\* first of them one of the smallest of these; numpy leaves their order
\* otherwise undefined.
Partitions(w, kk) ==
    {q \in [1..kk -> DOMAIN w] :
        /\ \A i, j \in 1..kk : i # j => q[i] # q[j]
        /\ \A i \in 1..kk : w[q[1]] <= w[q[i]]
        /\ \A j \in DOMAIN w : (\A i \in 1..kk : q[i] # j) => w[j] <= w[q[1]]}

\* lines 437-438
PartitionPath(w, kk) ==
    {ZeroBased(Reversed(Take(q, argsort(Take(w, q))))) : q \in Partitions(w, kk)}

\* The largest n with log(n) <= k, for the k the model reaches.
ExpFloor(kk) ==
    CASE kk = 0 -> 1
      [] kk = 1 -> 2
      [] kk = 2 -> 7
      [] kk = 3 -> 20
      [] OTHER -> 54

\* get_top_k_neuron_weights (lines 428-440): the results the call can have.
get_top_k_neuron_weights(c, kk) ==
    LET w == weight_penalties(c)
    IN  IF kk = 1 THEN {ArgmaxPath(w)}
        ELSE IF Len(w) <= ExpFloor(kk) THEN {FullSortPath(w, kk)}
        ELSE PartitionPath(w, kk)

TkStart ==
    /\ tkPc = "call"
    /\ \E n \in 2..MaxDims :
          /\ coef \in [1..n -> CoefVals]
          /\ k \in 1..(n - 1)
    /\ k_indices = <<>>

TkIdle ==
    /\ tkPc = "idle"
    /\ coef = <<>>
    /\ k = 0
    /\ k_indices = <<>>

TopK ==
    /\ tkPc = "call"
    /\ k_indices' \in get_top_k_neuron_weights(coef, k)
    /\ tkPc' = "done"
    /\ UNCHANGED <<coef, k>>
    /\ UNCHANGED notTk

TkNext == TopK

\* ------------------------------------------------------------ specifications

GAInit == GAStart /\ FitIdle /\ GenIdle /\ TkIdle

SpecGA == GAInit /\ [][GANext]_vars

FitInit == FitStart /\ GAIdle /\ GenIdle /\ TkIdle

SpecFit == FitInit /\ [][FitNext]_vars

GenInit == GenStart /\ GAIdle /\ FitIdle /\ TkIdle

SpecGen == GenInit /\ [][GenNext]_vars

TkInit == TkStart /\ GAIdle /\ FitIdle /\ GenIdle

SpecTopK == TkInit /\ [][TkNext]_vars


\* ------------------------------------------------- claims: GeneticAlgorithm

\* The scores of the population select was given, in ascending order.
LowestScores(f, s) ==
    /\ \A i, j \in DOMAIN s : i # j => s[i] # s[j]
    /\ \A i, j \in DOMAIN s : i < j => f[s[i]] <= f[s[j]]
    /\ \A i \in DOMAIN s : \A j \in Slots :
          (\A h \in DOMAIN s : s[h] # j) => f[s[i]] <= f[j]

\* C1: after select, the first elitism entries of the population it returns
\* are the elitism lowest-scoring individuals of the population that was
\* scored, in ascending score order, each with every gene as it was.
C1_ElitePrefix ==
    [][(gaPc = "select" /\ gaPc' = "cross") =>
          \E s \in [Elite -> Slots] :
             /\ LowestScores(fitness, s)
             /\ \A i \in Elite : nextPop'[i] = fits[s[i]]]_vars

\* select has reordered a population of three elites scored 2, 1, 0.
C1_Witness ==
    /\ gaPc = "cross"
    /\ gen = 0
    /\ elitism = PopSize
    /\ fitness = [i \in Slots |-> IF i <= MaxScore THEN MaxScore + 1 - i ELSE 0]
    /\ nextPop # InitPop
    /\ nextPop[1] = InitPop[PopSize]

\* The score the deterministic fitness function gave an individual.
Known(ind) == \E o \in oracle : o[1] = ind
ScoreOf(ind) == (CHOOSE o \in oracle : o[1] = ind)[2]

\* C2: evolve returns a member of the final population, and no member of the
\* final population has a strictly lower score (stated for a deterministic
\* fitness function, over the members whose score it has given).
C2_ReturnsBest ==
    (gaPc = "done" /\ deterministic) =>
        /\ \E i \in Slots : fits[i] = best
        /\ \A i \in Slots :
              (Known(fits[i]) /\ Known(best)) => ScoreOf(best) <= ScoreOf(fits[i])

\* C6: the genes mutate redrew are genes of the population that becomes the
\* next generation (nextPop, assigned to self.fits at line 100), and no
\* elite individual of it was changed by mutate.
C6_MutateActsOnNext ==
    (gaPc = "assign") =>
        /\ \A m \in lastMut : nextPop[m[1]] # None => nextPop[m[1]][m[2]] = m[3]
        /\ \A m \in lastMut : m[1] > elitism

\* An individual: a vector of IndSize genes.
IsIndividual(ind) == DOMAIN ind = Genes /\ \A g \in Genes : ind[g] \in Int

\* C7: once a score vector has been computed, after select, cross and
\* mutate the population has PopSize individuals, each a vector of IndSize
\* genes, and none of the three steps raises (the wheel never yields a
\* missing individual, all-zero scores included).
C7_PopulationShape ==
    /\ (gaPc \in {"cross", "mutate", "assign"}) =>
          /\ DOMAIN nextPop = Slots
          /\ \A i \in Slots : IsIndividual(nextPop[i])
    /\ (gaPc = "crashed" /\ gen = 0) => fitness = <<>>

\* The lowest score of a population.
MinScore(f) == Min({f[i] : i \in Slots})

\* When cross and mutate are done, the first elitism slots of the next
\* population hold the elitism lowest-scoring individuals select sorted to
\* the front of self.fits.
ElitesKept ==
    (gaPc = "assign") => \A i \in Elite : nextPop[i] = fits[i]

\* C8 as amended: with a deterministic fitness function and elitism >= 1,
\* each generation hands the elitism lowest-scoring individuals it evaluated,
\* unchanged, to the first slots of the next population, and the lowest
\* score of the next population evaluated is not above the lowest score of
\* this one.
C8_ElitismKeepsBest ==
    /\ [](deterministic => ElitesKept)
    /\ [][(deterministic /\ elitism >= 1 /\ gaPc = "evaluate" /\ gaPc' = "select"
            /\ gen >= 1)
          => MinScore(fitness') <= MinScore(fitness)]_vars

\* C8 as stated: the same for every elitism, 0 included.
C8_AsStated ==
    /\ [](deterministic => ElitesKept)
    /\ [][(deterministic /\ gaPc = "evaluate" /\ gaPc' = "select" /\ gen >= 1)
          => MinScore(fitness') <= MinScore(fitness)]_vars

\* The second generation of a deterministic run with one elite has been
\* evaluated, and its best score is the first generation's.
C8_Witness ==
    /\ deterministic
    /\ elitism = 1
    /\ gen = 1
    /\ gaPc = "select"
    /\ Cardinality(oracle) > PopSize
    /\ MinScore(fitness) = 1

\* The share of the wheel that selects slot i of the sorted population: the
\* picks for which roullete_wheel returns it.
Share(sorted, i) ==
    Cardinality({p \in Picks(SumTo(sorted, PopSize)) : roullete_wheel(sorted, p) = i})

\* C11: when select fills a slot from the wheel, an individual with a lower
\* (better) score has at least as large a share of the wheel as one with a
\* higher score.
C11_WheelFavoursBetter ==
    (gaPc = "select" /\ NonElite # {}) =>
        LET sorted == Take(fitness, argsort(fitness))
        IN  \A a, b \in Slots :
               sorted[a] < sorted[b] => Share(sorted, a) >= Share(sorted, b)

\* ---------------------------------------------------- claims: fit_sequence

\* The learning rate a run without checkpoint uses in an epoch,
\* lr * (epochs - epoch) / epochs: it starts at lr and line 267 lowers it by
\* lr / epochs at the end of every epoch.
UninterruptedLr(e) == DecayedLr(fitArgs.epochs, e)

\* A run without checkpoint does use that rate in every training window.
UninterruptedSchedule ==
    (fitPc = "window" /\ ~checkpoint.present) => optimizer_lr = UninterruptedLr(epoch)

\* C3: a run resumed from a checkpoint the uninterrupted run saved (its
\* optimizer state holds the rate of the checkpoint's epoch) trains every
\* window of the checkpoint's epoch and of every later epoch at the learning
\* rate the uninterrupted run uses in that epoch, its first window is the
\* checkpoint's epoch, shard and batch, and unless interrupted it never ends
\* in an exception (the held-out shard holding at least one window).
C3_ResumedSchedule ==
    (/\ checkpoint.present
     /\ fitArgs.test_batches > 0
     /\ checkpoint.optim = "state_dict"
     /\ checkpoint.optim_lr = UninterruptedLr(checkpoint.epoch)) =>
      /\ ~interrupted => fitPc # "raised"
      /\ fitPc = "window" =>
        /\ optimizer_lr = UninterruptedLr(epoch)
        /\ firstWindow =>
              /\ epoch = checkpoint.epoch
              /\ shard = checkpoint.shard
              /\ batch_ix = checkpoint.batch

\* The training-state JSON holds epoch, shard, batch and loss as they are.
TrainFileCurrent ==
    \E json \in files.train :
        /\ DOMAIN json = {"epoch", "shard", "batch", "loss"}
        /\ \A key \in DOMAIN json : json[key] = training_state[key]

\* C4: once fit_sequence has caught a KeyboardInterrupt raised while the
\* training loop was running (a periodic test and the end-of-epoch save
\* included), no exception reaches the caller, and when fit_sequence returns
\* the final save has written the model blob, the training-state JSON and
\* the metadata JSON, and the final test has run (the held-out shard
\* holding at least one window).
C4_InterruptSavesAndTests ==
    (interrupted /\ fitArgs.test_batches > 0) =>
        /\ fitPc # "raised"
        /\ fitPc = "returned" =>
              /\ files.model \notin {{}, Truncated}
              /\ TrainFileCurrent
              /\ files.meta \notin {{}, Truncated}
              /\ mode = "eval"

\* C13: every training window runs with the model in training mode; a
\* periodic test never leaves a later window of the shard in evaluation mode.
C13_WindowsInTrainMode ==
    fitPc = "window" => mode = "train"

\* ----------------------------------------------- claims: generate_sequence

\* The sequence generate_sequence hands to the decoder and returns.
Returned == (CHOOSE r \in result : TRUE).sequence

\* C5: for every seed and every length L >= 0 (at a temperature that can be
\* sampled), generate_sequence returns normally, with len(seed) + L symbols
\* when append_init is true and L symbols when it is false; for L = 0 with
\* an empty override and append_init true the output is the seed and no
\* symbol was sampled.
C5_GeneratedLength ==
    genArgs.temperature > 0 =>
        /\ genPc # "raised"
        /\ genPc = "returned" =>
              /\ Len(Returned) =
                    (IF genArgs.append_init THEN Len(genArgs.sample_init) ELSE 0)
                    + genArgs.sample_len
              /\ (genArgs.sample_len = 0 /\ genArgs.override = {}
                    /\ genArgs.append_init)
                    => (Returned = genArgs.sample_init /\ sampled = 0)

\* C10: a call with temperature <= 0 never draws a symbol and never returns
\* a generated sequence.
C10_TemperatureRejected ==
    genArgs.temperature <= 0 => (sampled = 0 /\ genPc # "returned")

\* The cell state generate_sequence returns with the sequence.
ReturnedCell == (CHOOSE r \in result : TRUE).trans_sequence

\* C12: for a length L >= 1 (at a temperature above 0) the cell state
\* returned is the one the last forward step produced: it has been through
\* every forward step the final state has been through.
C12_ReturnsFinalCell ==
    (genPc = "returned" /\ genArgs.sample_len >= 1 /\ genArgs.temperature > 0) =>
        ReturnedCell.steps = hidden_cell.steps

\* ---------------------------------------- claims: get_top_k_neuron_weights

\* The results the three selection paths give for the same weights and k.
AllPaths(w, kk) ==
    (IF kk = 1 THEN {ArgmaxPath(w)} ELSE {})
        \cup {FullSortPath(w, kk)}
        \cup PartitionPath(w, kk)

\* C9: the result is k distinct indices in [0, n), in descending order of
\* salience, and it is the list every one of the three paths computes.
C9_TopKSamePath ==
    tkPc = "done" =>
        LET w == weight_penalties(coef)
        IN  /\ Len(k_indices) = k
            /\ \A i \in 1..k : k_indices[i] \in 0..(Len(w) - 1)
            /\ \A i, j \in 1..k : i # j => k_indices[i] # k_indices[j]
            /\ \A i, j \in 1..k : i < j => w[k_indices[i] + 1] >= w[k_indices[j] + 1]
            /\ AllPaths(w, k) = {k_indices}

=============================================================================
